---- MODULE Spec2Model ----
(***************************************************************************)
(* The user-account backend of NeoroSense: the express server with its     *)
(* mongoose User model (register, login, get current user, update user,    *)
(* progress) and the /api/users router.                                    *)
(*                                                                         *)
(* Every request runs in a slot.  A handler is cut at its awaits on the    *)
(* database: one action per database operation, together with the          *)
(* synchronous code and the pure bcrypt/jwt computations that follow it up *)
(* to the next database operation or the response.  Slots interleave       *)
(* freely at these points, as requests do on the event loop.               *)
(***************************************************************************)
EXTENDS Integers, Sequences, FiniteSets, TLC

\* ---------------------------------------------------------------- bounds
NSlots == 2         \* requests in flight at once
MaxUsers == 2       \* records the store may come to hold
NSalts == 1         \* distinct salts bcrypt may draw
MaxTicks == 1       \* times the clock advances by one token lifetime
MaxUpdates == 2     \* update requests accepted in a behaviour of SpecWrites
MaxUpdatesAll == 1  \* update requests accepted in a behaviour of Spec
MaxChanges == 2     \* kinds of change one update request carries

\* ------------------------------------------------------ program constants
ExpiresIn == 7      \* jwt.sign(..., { expiresIn: '7d' }), in days

Slots == 1..NSlots
Ids == 1..MaxUsers
Salts == 1..NSalts

\* ----------------------------------------------------------------- values
Undefined == "undefined"      \* a field the JSON body does not carry
Names == {"Ann"}               \* names to register under
NewNames == {"Bob"}            \* names to change to
Emails == {"a@x.io", "b@x.io"}
Passwords == {"pw1", "pw2"}    \* passwords to log in with
NewPasswords == {"pw1"}        \* passwords to register with
\* currentPassword and newPassword of an update request
PasswordChanges ==
  {<<"pw1", "pw2">>, <<"pw1", "pw3">>, <<"pw2", "pw1">>, <<"pw1", Undefined>>,
   <<Undefined, Undefined>>}
Phones == {"555"}
Birthdates == {"1990-01-01"}

Opt(S) == S \cup {Undefined}

\* JavaScript truthiness of a body field: undefined and '' are falsy.
Truthy(v) == v # Undefined /\ v # ""

\* ------------------------------------------------------------------ bcrypt
NoDigest == [pw |-> "", salt |-> 0]

\* bcrypt.hash(password, 10): a digest of the plaintext under a fresh salt.
Hash(p, s) == [pw |-> p, salt |-> s]

\* bcrypt.compare(s, hash) rejects with "Illegal arguments" when s is not a
\* string; otherwise it re-hashes s under the digest's salt and compares.
CompareThrows(p) == p = Undefined

\* Faulty comparisons: the promise of an un-awaited compare is always truthy;
\* a plaintext compared with the digest itself never equals it.
CompareMutAlways(p, d) == TRUE

CompareMutPlain(p, d) == d.salt = 0 /\ d.pw = p

Compare(p, d) == Hash(p, d.salt) = d

\* --------------------------------------------------------------------- jwt
\* A signed token: the claims, and whether the signature is the secret's
\* signature of these claims.
Sign(userId, email, t) ==
  [userId |-> userId, email |-> email, exp |-> t + ExpiresIn, sig |-> "good"]

\* A faulty verification: jwt.decode reads the claims and checks nothing.
JwtVerifyMutNoSig(tok, t) == TRUE

\* jwt.verify(token, secret): throws on a bad signature or once exp is past.
JwtVerify(tok, t) == tok.sig = "good" /\ t < tok.exp

\* The Authorization header: absent, or its value as the segments that
\* split(' ') yields.
NoHeader == [present |-> FALSE, parts |-> <<>>]

Header(parts) == [present |-> TRUE, parts |-> parts]

NoToken == [userId |-> 0, email |-> "", exp |-> 0, sig |-> "none"]

\* req.headers.authorization?.split(' ')[1]
ExtractToken(h) ==
  IF h.present /\ Len(h.parts) >= 2 THEN h.parts[2] ELSE NoToken


\* jwt.verify reads the wall clock; the kind of credential a header is.
TokenKind(h, t) ==
  IF ~h.present \/ Len(h.parts) < 2 THEN "missing"
  ELSE IF h.parts[2].sig # "good" THEN "tampered"
  ELSE IF t >= h.parts[2].exp THEN "expired"
  ELSE "valid"

\* ------------------------------------------------------------------- state
VARIABLES
  store,      \* the users collection: id -> document
  now,        \* the wall clock, in days
  pc,         \* each slot's position in its handler
  body,       \* req.body
  uid,        \* req.userId, set by the auth middleware
  doc,        \* the handler's `user` document between database operations
  mod,        \* the paths of `user` mongoose has marked modified
  tokKind,    \* history: the kind of credential the request carried
  dupAtRecv,  \* history: the register request's email was stored on receipt
  registered, \* history: id -> the credentials the record was registered with
  updates,    \* update requests accepted so far
  last        \* the response the last step sent, if it sent one, with the
              \* history of its request

vars ==
  <<store, now, pc, body, uid, doc, mod, tokKind, dupAtRecv, registered, updates, last>>

\* ------------------------------------------------------------- User schema
ProfileFields == {"name", "email", "phone", "birthdate"}

NoDoc ==
  [id |-> 0, name |-> Undefined, email |-> Undefined, password |-> NoDigest,
   phone |-> "", birthdate |-> Undefined, createdAt |-> 0]

\* new User({ name, email, password }): phone defaults to '', createdAt to
\* Date.now; id 0 stands for the ObjectId until the document is saved.
NewUser(name, email, digest, t) ==
  [id |-> 0, name |-> name, email |-> email, password |-> digest,
   phone |-> "", birthdate |-> Undefined, createdAt |-> t]

IsNull(d) == d.id = 0

\* required: true on name, email and password (an empty string fails it too).
Validates(d) == Truthy(d.name) /\ Truthy(d.email) /\ d.password # NoDigest

\* A schema without the index accepts every email.
UniqueIndexOkMutNoIndex(email, self) == TRUE

\* unique: true on email: the index refuses a second document with the key.

UniqueIndexOk(email, self) ==
  \A id \in DOMAIN store : id = self \/ store[id].email # email

\* A faulty lookup: a filter on a path no document has matches nothing.
FindOneMutNone(email) == NoDoc

\* User.findOne({ email }): an undefined email is sent as null and matches no
\* document, every stored document having an email.
FindOne(email) ==
  IF \E id \in DOMAIN store : store[id].email = email
    THEN store[CHOOSE id \in DOMAIN store : store[id].email = email]
    ELSE NoDoc

\* User.findById(id)
FindById(id) == IF id \in DOMAIN store THEN store[id] ELSE NoDoc

\* The ObjectId of a new document: one no stored document has.
NextId == Cardinality(DOMAIN store) + 1

\* --------------------------------------------------------------- responses
NoBody ==
  [name |-> Undefined, email |-> Undefined, password |-> Undefined,
   phone |-> Undefined, birthdate |-> Undefined,
   currentPassword |-> Undefined, newPassword |-> Undefined]

Reply(status, b) == [status |-> status, body |-> b]

Msg(m) == [message |-> m]

NoResp == Reply(0, Msg(""))

OrEmpty(v) == IF v = Undefined THEN "" ELSE v

AvatarUrl(name) == <<"https://ui-avatars.com/api/?name=", name>>

\* The user object of the register response.
NewUserView(d) == [id |-> d.id, name |-> d.name, email |-> d.email]

\* A faulty view: the document itself.
UserViewMutWholeDoc(d) == d

\* The user object of the login, me and update responses.

UserView(d) ==
  [id |-> d.id, name |-> d.name, email |-> d.email, phone |-> OrEmpty(d.phone),
   birthdate |-> OrEmpty(d.birthdate), profileImage |-> AvatarUrl(d.name)]

ProgressBody(t) ==
  [mentalHealthScore |-> 75, assessmentsCompleted |-> 3,
   lastAssessmentDate |-> t, progressHistory |-> <<65, 70, 75>>]

ServerError == Reply(500, Msg("Server error"))

\* What `last` records of a response: the route, the request's body and
\* userId, the response, and the history of the request.
Sent(rt, req, u, rs, kind, h, w, dup) ==
  [route |-> rt, req |-> req, uid |-> u, resp |-> rs, tokKind |-> kind,
   handled |-> h, wrote |-> w, dupAtRecv |-> dup]

NoLast == Sent("none", NoBody, 0, NoResp, "none", FALSE, FALSE, FALSE)

\* -------------------------------------------------------------- the clients
Clock == {k * ExpiresIn : k \in 0..MaxTicks}

\* The tokens a client can hold: register signs one for a document in the
\* step that saves it, and a login signs one at any later clock reading.
IssuedTokens ==
  UNION {{Sign(id, store[id].email, t) :
            t \in {c \in Clock : store[id].createdAt <= c /\ c <= now}} :
         id \in DOMAIN store}

\* Claims under a signature that is not the secret's.
ForgedTokens == {[Sign(id, "a@x.io", now) EXCEPT !.sig = "bad"] : id \in Ids}

Headers ==
  {NoHeader, Header(<<"Bearer">>)}
    \cup {Header(<<"Bearer", tok>>) : tok \in IssuedTokens \cup ForgedTokens}

\* ------------------------------------------------------------------- Init
Init ==
  /\ store = <<>>
  /\ now = 0
  /\ pc = [r \in Slots |-> "idle"]
  /\ body = [r \in Slots |-> NoBody]
  /\ uid = [r \in Slots |-> 0]
  /\ doc = [r \in Slots |-> NoDoc]
  /\ mod = [r \in Slots |-> {}]
  /\ tokKind = [r \in Slots |-> "none"]
  /\ dupAtRecv = [r \in Slots |-> FALSE]
  /\ registered = <<>>
  /\ updates = 0
  /\ last = NoLast

\* A request arrives in the free slot r with body b and the handler sends its
\* first database operation, the one it awaits at nxt.
Arrive(r, b, u, kind, nxt) ==
  /\ pc[r] = "idle"
  /\ pc' = [pc EXCEPT ![r] = nxt]
  /\ body' = [body EXCEPT ![r] = b]
  /\ uid' = [uid EXCEPT ![r] = u]
  /\ tokKind' = [tokKind EXCEPT ![r] = kind]
  /\ last' = NoLast

\* The handler in slot r moves on to its next database operation, at nxt,
\* holding document d with the paths m modified.
Await(r, nxt, d, m) ==
  /\ pc' = [pc EXCEPT ![r] = nxt]
  /\ doc' = [doc EXCEPT ![r] = d]
  /\ mod' = [mod EXCEPT ![r] = m]
  /\ last' = NoLast
  /\ UNCHANGED <<body, uid, tokKind, dupAtRecv>>

\* res.status(..).json(..) in slot r: the request is over, its locals gone.
Respond(r, rt, rs, w) ==
  /\ last' = Sent(rt, body[r], uid[r], rs, tokKind[r], TRUE, w, dupAtRecv[r])
  /\ pc' = [pc EXCEPT ![r] = "idle"]
  /\ body' = [body EXCEPT ![r] = NoBody]
  /\ uid' = [uid EXCEPT ![r] = 0]
  /\ doc' = [doc EXCEPT ![r] = NoDoc]
  /\ mod' = [mod EXCEPT ![r] = {}]
  /\ tokKind' = [tokKind EXCEPT ![r] = "none"]
  /\ dupAtRecv' = [dupAtRecv EXCEPT ![r] = FALSE]


\* ------------------------------------------------- POST /api/auth/register
Registering == {s \in Slots : pc[s] \in {"reg_find", "reg_save"}}

RegisterBodies ==
  {[NoBody EXCEPT !.name = n, !.email = e, !.password = p] :
     n \in Opt(Names), e \in Opt(Emails), p \in Opt(NewPasswords)}

\* The request arrives and the handler sends findOne({ email }).
RegisterRecv(r) ==
  /\ Cardinality(DOMAIN store) + Cardinality(Registering) < MaxUsers
  /\ \E b \in RegisterBodies :
       /\ Arrive(r, b, 0, "none", "reg_find")
       /\ dupAtRecv' = [dupAtRecv EXCEPT ![r] = ~IsNull(FindOne(b.email))]
  /\ UNCHANGED <<store, now, doc, mod, registered, updates>>

\* findOne answers; then bcrypt.hash and new User(..), up to the save.
RegisterFind(r) ==
  /\ pc[r] = "reg_find"
  /\ IF ~IsNull(FindOne(body[r].email))
       THEN Respond(r, "register", Reply(400, Msg("User already exists")), FALSE)
       ELSE IF body[r].password = Undefined
         THEN Respond(r, "register", ServerError, FALSE)
         ELSE \E salt \in Salts :
                Await(r, "reg_save",
                      NewUser(body[r].name, body[r].email,
                              Hash(body[r].password, salt), now), {})
  /\ UNCHANGED <<store, now, registered, updates>>

\* user.save() inserts; then jwt.sign and the 201.
RegisterSave(r) ==
  /\ pc[r] = "reg_save"
  /\ IF Validates(doc[r]) /\ UniqueIndexOk(doc[r].email, 0)
       THEN LET user == [doc[r] EXCEPT !.id = NextId] IN
            /\ store' = store @@ (user.id :> user)
            /\ registered' = registered @@
                 (user.id :> [email |-> body[r].email, password |-> body[r].password,
                              digest |-> user.password])
            /\ Respond(r, "register",
                       Reply(201, [message |-> "User created successfully",
                                   token |-> Sign(user.id, user.email, now),
                                   user |-> NewUserView(user)]),
                       TRUE)
       ELSE /\ Respond(r, "register", ServerError, FALSE)
            /\ UNCHANGED <<store, registered>>
  /\ UNCHANGED <<now, updates>>

\* ---------------------------------------------------- POST /api/auth/login
\* The handlers below await one database read.  The arrival of a request
\* touches nothing another request reads, so it is taken in the step in which
\* the database answers that read.
LoginBodies ==
  {[NoBody EXCEPT !.email = e, !.password = p] :
     e \in Opt(Emails), p \in Opt(Passwords)}

InvalidCredentials == Reply(400, Msg("Invalid credentials"))

\* The response of the login handler once findOne has answered `user`.
LoginReply(user, password, t) ==
  IF IsNull(user) THEN InvalidCredentials
  ELSE IF CompareThrows(password) THEN ServerError
  ELSE IF ~Compare(password, user.password) THEN InvalidCredentials
  ELSE Reply(200, [message |-> "Login successful",
                   token |-> Sign(user.id, user.email, t),
                   user |-> UserView(user)])

Login(r) ==
  /\ pc[r] = "idle"
  /\ \E b \in LoginBodies :
       last' = Sent("login", b, 0, LoginReply(FindOne(b.email), b.password, now),
                    "none", TRUE, FALSE, FALSE)
  /\ UNCHANGED <<store, now, pc, body, uid, doc, mod, tokKind, dupAtRecv,
                 registered, updates>>

\* ----------------------------------------------------------- authMiddleware
\* Extracts the bearer token and verifies it: the userId to run the handler
\* for, or the 401 to answer.
AuthMiddleware(h, t) ==
  LET token == ExtractToken(h) IN
  IF token = NoToken
    THEN [ok |-> FALSE, userId |-> 0, reply |-> Reply(401, Msg("No token provided"))]
    ELSE IF JwtVerify(token, t)
      THEN [ok |-> TRUE, userId |-> token.userId, reply |-> NoResp]
      ELSE [ok |-> FALSE, userId |-> 0, reply |-> Reply(401, Msg("Invalid token"))]

\* `protect` of middleware/authMiddleware.js, which /api/users/profile runs
\* first: Unauthenticated -> TokenExtracted -> TokenVerified -> Authorized, or
\* Rejected with a 401.
Protect(h, t) ==
  IF TokenKind(h, t) = "valid"
    THEN [ok |-> TRUE, userId |-> h.parts[2].userId, reply |-> NoResp]
    ELSE [ok |-> FALSE, userId |-> 0, reply |-> Reply(401, Msg("Not authorized"))]

\* The 401 of a middleware that did not call next(): no handler runs.
Rejected(rt, h, auth) ==
  Sent(rt, NoBody, 0, auth.reply, TokenKind(h, now), FALSE, FALSE, FALSE)

\* findById(..).select('-password')
SelectNoPassword(d) == [f \in DOMAIN d \ {"password"} |-> d[f]]

\* ------------------------------------------------------- GET /api/auth/me
MeReply(user) ==
  IF IsNull(user) THEN Reply(404, Msg("User not found"))
  ELSE Reply(200, [user |-> UserView(SelectNoPassword(user))])

Me(r) ==
  /\ pc[r] = "idle"
  /\ \E h \in Headers :
       LET auth == AuthMiddleware(h, now) IN
       last' = IF auth.ok
                 THEN Sent("me", NoBody, auth.userId, MeReply(FindById(auth.userId)),
                           TokenKind(h, now), TRUE, FALSE, FALSE)
                 ELSE Rejected("me", h, auth)
  /\ UNCHANGED <<store, now, pc, body, uid, doc, mod, tokKind, dupAtRecv,
                 registered, updates>>

\* ------------------------------------------------------ GET /api/progress
\* The handler awaits nothing.
Progress(r) ==
  /\ pc[r] = "idle"
  /\ \E h \in Headers :
       LET auth == AuthMiddleware(h, now) IN
       last' = IF auth.ok
                 THEN Sent("progress", NoBody, auth.userId, Reply(200, ProgressBody(now)),
                           TokenKind(h, now), TRUE, FALSE, FALSE)
                 ELSE Rejected("progress", h, auth)
  /\ UNCHANGED <<store, now, pc, body, uid, doc, mod, tokKind, dupAtRecv,
                 registered, updates>>

\* ------------------------------------------------- GET /api/users/profile
\* router.get('/profile', protect, getUserProfile); getUserProfile, of
\* controllers/userController.js, answers in the shape of /api/auth/me.
GetUserProfile(userId) == MeReply(FindById(userId))

Profile(r) ==
  /\ pc[r] = "idle"
  /\ \E h \in Headers :
       LET auth == Protect(h, now) IN
       last' = IF auth.ok
                 THEN Sent("profile", NoBody, auth.userId, GetUserProfile(auth.userId),
                           TokenKind(h, now), TRUE, FALSE, FALSE)
                 ELSE Rejected("profile", h, auth)
  /\ UNCHANGED <<store, now, pc, body, uid, doc, mod, tokKind, dupAtRecv,
                 registered, updates>>

\* ---------------------------------------------------- PUT /api/users/update
\* if (name) user.name = name; if (email) ..; if (phone !== undefined) ..;
\* if (birthdate) ..
Assigned(b) ==
  {f \in {"name", "email", "birthdate"} : Truthy(b[f])}
    \cup {f \in {"phone"} : b[f] # Undefined}

BasicInfo(user, b) ==
  [f \in DOMAIN user |-> IF f \in Assigned(b) THEN b[f] ELSE user[f]]

\* if (currentPassword && newPassword)
ChangesPassword(b) == Truthy(b.currentPassword) /\ Truthy(b.newPassword)

\* The kinds of change a body asks for.
Changes(b) ==
  {f \in ProfileFields : b[f] # Undefined}
    \cup {f \in {"password"} :
            b.currentPassword # Undefined \/ b.newPassword # Undefined}

UpdateBodies ==
  {b \in {[NoBody EXCEPT !.name = n, !.email = e, !.phone = ph, !.birthdate = bd,
                         !.currentPassword = pw[1], !.newPassword = pw[2]] :
            n \in Opt(NewNames), e \in Opt(Emails), ph \in Opt(Phones),
            bd \in Opt(Birthdates), pw \in PasswordChanges} :
     Cardinality(Changes(b)) <= MaxChanges}

\* mongoose marks a path modified when it is set to a value other than the
\* one it holds.
ModifiedPaths(user, d) == {f \in DOMAIN user : d[f] # user[f]}

\* The handler, once findById has answered `user`, up to the save: the
\* assignments, bcrypt.compare and bcrypt.hash.
UpdateLoaded(r, b, user, kind) ==
  LET basic == BasicInfo(user, b) IN
  IF IsNull(user)
    THEN last' = Sent("update", b, 0, Reply(404, Msg("User not found")),
                      kind, TRUE, FALSE, FALSE)
         /\ UNCHANGED <<pc, body, uid, doc, mod, tokKind>>
    ELSE IF ChangesPassword(b) /\ ~Compare(b.currentPassword, user.password)
      THEN last' = Sent("update", b, user.id,
                        Reply(400, Msg("Current password is incorrect")),
                        kind, TRUE, FALSE, FALSE)
           /\ UNCHANGED <<pc, body, uid, doc, mod, tokKind>>
      ELSE \E salt \in Salts :
             LET d == IF ChangesPassword(b)
                        THEN [basic EXCEPT !.password = Hash(b.newPassword, salt)]
                        ELSE basic
             IN /\ pc' = [pc EXCEPT ![r] = "upd_save"]
                /\ body' = [body EXCEPT ![r] = b]
                /\ uid' = [uid EXCEPT ![r] = user.id]
                /\ doc' = [doc EXCEPT ![r] = d]
                /\ mod' = [mod EXCEPT ![r] = ModifiedPaths(user, d)]
                /\ tokKind' = [tokKind EXCEPT ![r] = kind]
                /\ last' = NoLast


\* The request arrives, the middleware runs, and findById answers.
Update(r, max) ==
  /\ pc[r] = "idle"
  /\ \E h \in Headers :
       LET auth == AuthMiddleware(h, now) IN
       IF auth.ok
         THEN /\ updates < max
              /\ updates' = updates + 1
              /\ \E b \in UpdateBodies :
                   UpdateLoaded(r, b, FindById(auth.userId), TokenKind(h, now))
         ELSE /\ last' = Rejected("update", h, auth)
              /\ UNCHANGED <<pc, body, uid, doc, mod, tokKind, updates>>
  /\ UNCHANGED <<store, now, dupAtRecv, registered>>

\* A faulty save: the whole local document replaces the stored one.
SavedMutWholeDoc(old, d, m) == d

\* user.save() of a loaded document sends updateOne({ _id }, { $set: <the
\* modified paths> }): the stored document after it.

Saved(old, d, m) == [f \in DOMAIN old |-> IF f \in m THEN d[f] ELSE old[f]]

Updated(d) ==
  Reply(200, [message |-> "User updated successfully", user |-> UserView(d)])

\* user.save(); then the 200 built from the handler's own `user`.
UpdateSave(r) ==
  /\ pc[r] = "upd_save"
  /\ LET d == doc[r] IN
     IF mod[r] = {}
       THEN /\ Respond(r, "update", Updated(d), FALSE)
            /\ UNCHANGED store
       ELSE IF Validates(d) /\ ("email" \in mod[r] => UniqueIndexOk(d.email, d.id))
         THEN /\ store' = [store EXCEPT ![d.id] = Saved(@, d, mod[r])]
              /\ Respond(r, "update", Updated(d), TRUE)
         ELSE /\ Respond(r, "update", ServerError, FALSE)
              /\ UNCHANGED store
  /\ UNCHANGED <<now, registered, updates>>

\* ------------------------------------------------------------------- clock
Tick ==
  /\ now < MaxTicks * ExpiresIn
  /\ now' = now + ExpiresIn
  /\ last' = NoLast
  /\ UNCHANGED <<store, pc, body, uid, doc, mod, tokKind, dupAtRecv, registered, updates>>

\* The whole server, with the clock.
Next ==
  \/ \E r \in Slots : RegisterRecv(r)
  \/ \E r \in Slots : RegisterFind(r)
  \/ \E r \in Slots : RegisterSave(r)
  \/ \E r \in Slots : Login(r)
  \/ \E r \in Slots : Me(r)
  \/ \E r \in Slots : Update(r, MaxUpdatesAll)
  \/ \E r \in Slots : UpdateSave(r)
  \/ \E r \in Slots : Progress(r)
  \/ \E r \in Slots : Profile(r)
  \/ Tick

Spec == Init /\ [][Next]_vars

\* The routes that write to the store, with more update requests.
NextWrites ==
  \/ \E r \in Slots : RegisterRecv(r)
  \/ \E r \in Slots : RegisterFind(r)
  \/ \E r \in Slots : RegisterSave(r)
  \/ \E r \in Slots : Update(r, MaxUpdates)
  \/ \E r \in Slots : UpdateSave(r)

SpecWrites == Init /\ [][NextWrites]_vars


\* ================================================================== claims
Protected == {"me", "update", "progress", "profile"}

HasToken(rs) == "token" \in DOMAIN rs.body

Holders(email) == {id \in DOMAIN store : store[id].email = email}

\* The digest was made from this plaintext.
Matches(p, d) == d.pw = p

\* C1: in every reachable state of the store no two records have the same
\* email, whatever the interleaving of register and update requests.
C1_UniqueEmail ==
  \A i \in DOMAIN store : \A j \in DOMAIN store :
    i # j => store[i].email # store[j].email

\* An update that set a user's email to the email of another record was
\* refused by the index.
C1_Witness ==
  /\ last.route = "update"
  /\ last.resp.status = 500
  /\ \E id \in DOMAIN store : id # last.uid /\ store[id].email = last.req.email

\* C2, as claimed: a register request whose email belonged to a stored record
\* when the request was received is answered 400, returns no token and
\* creates no record.
C2_AtReceipt ==
  (last.route = "register" /\ last.dupAtRecv) =>
    /\ last.resp.status = 400
    /\ ~HasToken(last.resp)
    /\ ~last.wrote

\* C2, amended: a register request whose email belongs to a stored record when
\* its lookup runs is answered 400 "User already exists" with no token, and
\* the store is left as it was, with exactly one record for that email.
C2_AtLookup ==
  [][\A r \in Slots :
       (pc[r] = "reg_find" /\ pc'[r] # "reg_find" /\ Holders(body[r].email) # {}) =>
         /\ last' = Sent("register", body[r], 0, Reply(400, Msg("User already exists")),
                         "none", TRUE, FALSE, dupAtRecv[r])
         /\ store' = store
         /\ Cardinality(Holders(body[r].email)) = 1]_vars

C2_Witness ==
  /\ last.route = "register"
  /\ last.resp.status = 400
  /\ Cardinality(Holders(last.req.email)) = 1

\* C3: the handler of a protected route is invoked only for a request whose
\* bearer token was extracted and verified; a request with no token, or with
\* a tampered or expired one, is answered 401, its handler is never invoked
\* and it does not change the store.
C3_AuthGate ==
  /\ \A r \in Slots : pc[r] = "upd_save" => tokKind[r] = "valid"
  /\ last.route \in Protected =>
       /\ last.handled => last.tokKind = "valid"
       /\ last.tokKind # "valid" =>
            last.resp.status = 401 /\ ~last.handled /\ ~last.wrote

C3_Witness ==
  /\ last.route = "update"
  /\ last.tokKind = "expired"
  /\ last.resp.status = 401
  /\ DOMAIN store # {}


C5_Always400 ==
  (last.route = "register" /\ last.resp.status # 201) =>
    /\ last.resp.status = 400
    /\ DOMAIN last.resp.body = {"message"}

\* C6: once a register request was answered 201, a login with the same email
\* and password, the record's email and digest being those of the
\* registration, is answered 200 with a token whose userId is the id of the
\* record, the userId of the registration's token.
C6_RegisterThenLogin ==
  /\ (last.route = "register" /\ last.resp.status = 201) =>
       /\ HasToken(last.resp)
       /\ last.resp.body.token.userId \in DOMAIN registered
       /\ last.resp.body.token.userId = last.resp.body.user.id
       /\ registered[last.resp.body.token.userId].email = last.req.email
       /\ registered[last.resp.body.token.userId].password = last.req.password
  /\ last.route = "login" =>
       \A id \in DOMAIN registered :
         (/\ last.req.email = registered[id].email
          /\ last.req.password = registered[id].password
          /\ store[id].email = registered[id].email
          /\ store[id].password = registered[id].digest) =>
           /\ last.resp.status = 200
           /\ HasToken(last.resp)
           /\ last.resp.body.token.userId = id

\* A login with the registered credentials, after an update of the same user
\* that changed neither email nor password.
C6_Witness ==
  /\ last.route = "login"
  /\ last.resp.status = 200
  /\ updates > 0
  /\ \E id \in DOMAIN registered :
       /\ last.resp.body.token.userId = id
       /\ last.req.email = registered[id].email
       /\ store[id].name # "Ann"

\* C7: a login that fails, because the email matches no record or because the
\* password does not verify against the record's digest, is answered 400
\* "Invalid credentials" in both cases, so that the response does not tell
\* which it was.
C7_SameFailure ==
  (last.route = "login" /\ ~HasToken(last.resp)) => last.resp = InvalidCredentials

\* C8: a successful update changes only what it supplied: an omitted profile
\* field keeps its stored value, id and createdAt never change, the digest
\* changes only if both passwords were supplied, and no other record changes;
\* also when updates of one user overlap.
C8_Frame ==
  [][\A r \in Slots :
       (pc[r] = "upd_save" /\ pc'[r] = "idle" /\ last'.resp.status = 200) =>
         /\ DOMAIN store' = DOMAIN store
         /\ \A o \in DOMAIN store : o # uid[r] => store'[o] = store[o]
         /\ \A f \in ProfileFields :
              body[r][f] = Undefined => store'[uid[r]][f] = store[uid[r]][f]
         /\ store'[uid[r]].id = store[uid[r]].id
         /\ store'[uid[r]].createdAt = store[uid[r]].createdAt
         /\ (body[r].currentPassword = Undefined \/ body[r].newPassword = Undefined) =>
              store'[uid[r]].password = store[uid[r]].password]_vars

\* An update was saved while another update of the same user, loaded before
\* it and supplying other fields, is still to be saved.
C8_Witness ==
  /\ last.route = "update"
  /\ last.wrote
  /\ \E r \in Slots :
       /\ pc[r] = "upd_save"
       /\ uid[r] = last.uid
       /\ mod[r] # {}
       /\ Changes(body[r]) \cap Changes(last.req) = {}
       /\ \E f \in ProfileFields : doc[r][f] # store[uid[r]][f] /\ f \notin mod[r]

\* C9: no response carries a password or a digest: the user object of a
\* response has only id, name, email, phone, birthdate and the avatar URL.
PublicFields == {"id", "name", "email", "phone", "birthdate", "profileImage"}

C9_NoPassword ==
  last.route \in {"register", "login", "me", "update", "progress"} =>
    /\ DOMAIN last.resp.body \cap {"password", "passwordDigest"} = {}
    /\ "user" \in DOMAIN last.resp.body =>
         DOMAIN last.resp.body.user \subseteq PublicFields
    /\ HasToken(last.resp) =>
         DOMAIN last.resp.body.token = {"userId", "email", "exp", "sig"}

C9_Witness ==
  /\ last.route = "update"
  /\ last.resp.status = 200
  /\ ChangesPassword(last.req)
  /\ "user" \in DOMAIN last.resp.body

\* C10: a stored digest is replaced only by an update request that supplied
\* both passwords and whose currentPassword matches the digest in the store
\* just before the replacement is written.
C10_VerifiedAtWrite ==
  [][\A id \in DOMAIN store :
       store'[id].password # store[id].password =>
         \E r \in Slots :
           /\ pc[r] = "upd_save" /\ pc'[r] = "idle" /\ uid[r] = id
           /\ ChangesPassword(body[r])
           /\ Matches(body[r].currentPassword, store[id].password)]_vars

====
